---- MODULE Spec2Model ----
(***************************************************************************)
(* Model of src/main.py: the "AI Questions API".                           *)
(*                                                                         *)
(* The document store (Firestore) is shared by every server process that   *)
(* serves the application, so requests handled by different processes      *)
(* interleave at their store calls.  Each store call of a handler is one   *)
(* step of the request; the handler's local computation is folded into     *)
(* the step of the store call that follows it.  Any store call may fail    *)
(* (the handlers have `except Exception` paths for it).                     *)
(*                                                                         *)
(* Python values of type Any are tagged records (int, str, None); strings  *)
(* are sequences of one-character strings, so that str() and strip() are   *)
(* computed, not assumed.                                                  *)
(***************************************************************************)
EXTENDS Integers, Sequences, FiniteSets, TLC

VARIABLES
    docs,         \* ai_answers/{user}/questions/{id}: snapshot per user and id
    summary,      \* ai_answers/{user}: the UserSummary document per user
    now,          \* the value the next datetime.utcnow() returns
    procs,        \* the request being handled in each slot
    nreq,         \* number of requests received so far
    firstCreated, \* history: created_at written when each document was created
    lastWrite,    \* history: the request fields of the last applied write per document
    lastSummary,  \* history: per user, the last UserSummary write and the live count then
    lastRefresh,  \* history: per user, outcome of the most recently finished refresh
    env,          \* process environment read by initialize_firebase
    apps,         \* firebase_admin._apps is non-empty
    initResult    \* outcome of the last initialize_firebase call

vars == <<docs, summary, now, procs, nreq, firstCreated, lastWrite, lastSummary,
          lastRefresh, env, apps, initResult>>

initVars == <<env, apps, initResult>>

(***************************************************************************)
(* Bounds                                                                  *)
(***************************************************************************)
MaxRequests == 2
MaxTime == 1
MaxItems == 2

Procs == {"p1", "p2"}
Users == {"u1", "u2"}
Tokens == Users \cup {"invalid"}

(***************************************************************************)
(* Python values                                                           *)
(***************************************************************************)
IntV(n) == [tag |-> "int", n |-> n, s |-> <<>>]
StrV(s) == [tag |-> "str", n |-> 0, s |-> s]
NoneV == [tag |-> "none", n |-> 0, s |-> <<>>]

Digits == <<"0", "1", "2", "3", "4", "5", "6", "7", "8", "9">>

RECURSIVE IntToStr(_)
IntToStr(n) ==
    IF n < 10 THEN <<Digits[n + 1]>>
    ELSE IntToStr(n \div 10) \o <<Digits[(n % 10) + 1]>>

\* str(x)
PyStr(v) ==
    CASE v.tag = "int" -> IF v.n < 0 THEN <<"-">> \o IntToStr(-v.n) ELSE IntToStr(v.n)
      [] v.tag = "str" -> v.s
      [] OTHER -> <<"N", "o", "n", "e">>

IsSpace(c) == c = " "

RECURSIVE LStrip(_)
LStrip(s) == IF s # <<>> /\ IsSpace(Head(s)) THEN LStrip(Tail(s)) ELSE s

RECURSIVE RStrip(_)
RStrip(s) ==
    IF s # <<>> /\ IsSpace(s[Len(s)]) THEN RStrip(SubSeq(s, 1, Len(s) - 1)) ELSE s

\* str.strip()
Strip(s) == RStrip(LStrip(s))

\* x.strip() raises AttributeError unless x is a str
HasStrip(v) == v.tag = "str"

BlankLiteral(v) == v.s = <<>>

\* `not x.strip()`
IsBlank(v) == Strip(v.s) = <<>>

(***************************************************************************)
(* Input domains                                                           *)
(***************************************************************************)
QuestionIds == {1, 2}
\* (question_text, answer) of a single save: plain, padded, blank text, empty answer
SaveTexts ==
    {<<StrV(<<"Q">>), StrV(<<"a">>)>>, <<StrV(<<" ", "R">>), StrV(<<"b", " ">>)>>,
     <<StrV(<<" ">>), StrV(<<"a">>)>>, <<StrV(<<"Q">>), StrV(<<>>)>>}

BulkQuestionIds == {IntV(1), StrV(<<"2">>)}

RequiredKeys == {"question_id", "question_text", "answer"}

\* items of a bulk request: an answered item under an int and under a str
\* question_id, a blank answer, an answer that is no string, an item lacking a key
BulkItems ==
    {[question_id |-> q, question_text |-> StrV(<<" ", "R">>), answer |-> StrV(<<"a">>)] :
        q \in BulkQuestionIds}
    \cup {[question_id |-> IntV(1), question_text |-> StrV(<<"Q">>), answer |-> StrV(<<" ">>)],
          [question_id |-> IntV(1), question_text |-> StrV(<<"Q">>), answer |-> NoneV],
          [question_id |-> IntV(2), question_text |-> StrV(<<"Q">>)]}

BulkLists == UNION {[1..n -> BulkItems] : n \in 0..MaxItems}

DocIds == {PyStr(q) : q \in BulkQuestionIds \cup {IntV(q) : q \in QuestionIds}}

(***************************************************************************)
(* Document store                                                          *)
(***************************************************************************)
NullData ==
    [question_id |-> NoneV, question_text |-> <<>>, answer |-> <<>>,
     created_at |-> 0, updated_at |-> 0]

NoDoc == [exists |-> FALSE, data |-> NullData]

Snapshot(d) == [exists |-> TRUE, data |-> d]

NoSummary == [exists |-> FALSE, user_id |-> "", total_answers |-> 0, last_updated |-> 0]

\* DocumentReference.get()
GetDocument(u, id) == docs[u][id]

SetKeepText(old, data) ==
    IF old.exists
    THEN Snapshot([data EXCEPT !.question_text = old.data.question_text])
    ELSE Snapshot(data)

\* DocumentReference.set(data): the document becomes exactly data
SetDocument(old, data) == Snapshot(data)

\* the documents of a user after the writes of `batch` are applied in order
RECURSIVE ApplyBatch(_, _)
ApplyBatch(ud, batch) ==
    IF batch = <<>> THEN ud
    ELSE ApplyBatch([ud EXCEPT ![Head(batch).id] = SetDocument(@, Head(batch).data)],
                    Tail(batch))

\* questions_ref.stream(): the ids of the stored documents of a user
StoredIds(u) == {id \in DocIds : docs[u][id].exists}

\* len(list(questions_ref.stream()))
CountAnswers(u) == Cardinality(StoredIds(u))

\* datetime.utcnow(): each reading is later than the one before, up to MaxTime
utcnow == now

Later(t) == IF t < MaxTime THEN t + 1 ELSE t

(***************************************************************************)
(* Ordering used by list.sort(key=lambda x: x["question_id"])              *)
(***************************************************************************)
\* the characters of the model in code-point order
Alphabet ==
    <<" ", "-", "0", "1", "2", "3", "4", "5", "6", "7", "8", "9",
      "N", "Q", "R", "a", "b", "e", "n", "o">>

CharRank(c) == CHOOSE i \in 1..Len(Alphabet) : Alphabet[i] = c

RECURSIVE StrLess(_, _)
StrLess(a, b) ==
    IF b = <<>> THEN FALSE
    ELSE IF a = <<>> THEN TRUE
    ELSE IF Head(a) = Head(b) THEN StrLess(Tail(a), Tail(b))
    ELSE CharRank(Head(a)) < CharRank(Head(b))

\* x < y is defined (no TypeError): int with int, str with str
Comparable(x, y) == x.tag = y.tag /\ x.tag # "none"

PyLess(x, y) == IF x.tag = "int" THEN x.n < y.n ELSE StrLess(x.s, y.s)

SortFailed == [ok |-> FALSE, list |-> <<>>]

\* one insertion of a stable sort; a comparison of unlike types raises TypeError
RECURSIVE Insert(_, _)
Insert(sorted, x) ==
    IF sorted = <<>> THEN [ok |-> TRUE, list |-> <<x>>]
    ELSE LET last == sorted[Len(sorted)]
         IN IF ~Comparable(x.question_id, last.question_id) THEN SortFailed
            ELSE IF PyLess(x.question_id, last.question_id)
            THEN LET r == Insert(SubSeq(sorted, 1, Len(sorted) - 1), x)
                 IN IF r.ok THEN [ok |-> TRUE, list |-> r.list \o <<last>>] ELSE r
            ELSE [ok |-> TRUE, list |-> sorted \o <<x>>]

RECURSIVE SortFrom(_, _)
SortFrom(sorted, rest) ==
    IF rest = <<>> THEN [ok |-> TRUE, list |-> sorted]
    ELSE LET r == Insert(sorted, Head(rest))
         IN IF r.ok THEN SortFrom(r.list, Tail(rest)) ELSE r

\* answers.sort(key=lambda x: x["question_id"])
SortByQuestionId(list) == SortFrom(<<>>, list)

\* the ids of S in document-id order, the order stream() yields them in
RECURSIVE IdsInOrder(_)
IdsInOrder(S) ==
    IF S = {} THEN <<>>
    ELSE LET m == CHOOSE x \in S : \A y \in S \ {x} : StrLess(x, y)
         IN <<m>> \o IdsInOrder(S \ {m})

\* [doc.to_dict() for doc in questions_ref.stream()]
StreamAnswers(u) ==
    LET ids == IdsInOrder(StoredIds(u))
    IN [i \in 1..Len(ids) |-> docs[u][ids[i]].data]

(***************************************************************************)
(* Requests                                                                *)
(***************************************************************************)
NoRequest ==
    [user_id |-> "", question_id |-> NoneV, question_text |-> NoneV,
     answer |-> NoneV, answers |-> <<>>]

NoBody == [answers |-> <<>>, total_answers |-> 0]

Idle ==
    [pc |-> "idle", op |-> "none", token |-> "", user |-> "", req |-> NoRequest,
     time |-> 0, i |-> 0, batch |-> <<>>, data |-> NullData, existing |-> NoDoc,
     total |-> 0, status |-> 0, body |-> NoBody,
     didRead |-> FALSE, didWrite |-> FALSE, wrote |-> FALSE, refresh |-> "none",
     storeFailed |-> FALSE, alone |-> TRUE, written |-> {}, lacksKey |-> FALSE]

SlotNo(p) == IF p = "p1" THEN 1 ELSE 2

InFlight(q) == procs[q].pc \notin {"idle", "done"}

\* the handler returns or raises: its locals are gone, the response stays
\* (the request is kept with a success response only)
Finish(pr, status) ==
    [pr EXCEPT !.pc = "done", !.status = status, !.time = 0, !.i = 0,
               !.batch = <<>>, !.data = NullData, !.existing = NoDoc, !.total = 0,
               !.req = IF status = 200 THEN @ ELSE NoRequest]

\* verify_firebase_token raises 401: the handler is never entered
Unauthorized(op) == [Idle EXCEPT !.pc = "done", !.op = op, !.token = "invalid",
                                 !.status = 401]

\* an exception of a store call reaches `except Exception`: 500
StoreError(pr) == [Finish(pr, 500) EXCEPT !.storeFailed = TRUE]

\* a request can arrive: it takes the first slot with no request in flight
Free(p) ==
    /\ nreq < MaxRequests
    /\ ~InFlight(p)
    /\ \A q \in Procs : ~InFlight(q) => SlotNo(p) <= SlotNo(q)

Receive(p, pr) ==
    /\ nreq' = nreq + 1
    /\ now' = IF pr.pc \in {"sqa_get", "bulk_loop"} THEN Later(now) ELSE now
    /\ procs' = [q \in Procs |->
                    IF q = p THEN [pr EXCEPT !.alone = \A r \in Procs \ {p} : ~InFlight(r)]
                    ELSE [procs[q] EXCEPT !.alone = FALSE]]

Step(p, pr) == procs' = [procs EXCEPT ![p] = pr]

AuthorizedAlways(token, user_id) == TRUE

\* `authenticated_user_id != request.user_id` is false
Authorized(token, user_id) == token = user_id

AnswerData(qid, text, answer, t) ==
    [question_id |-> qid, question_text |-> Strip(text.s), answer |-> Strip(answer.s),
     created_at |-> t, updated_at |-> t]

\* `answer_data["created_at"] = existing.to_dict().get("created_at", current_time)`
KeepCreatedAt(data, existing) ==
    IF existing.exists THEN [data EXCEPT !.created_at = existing.data.created_at]
    ELSE data

\* history of one applied write of request pr to document id of user u
NoteWrite(u, id, data, text, answer, t) ==
    /\ firstCreated' =
          IF docs[u][id].exists THEN firstCreated
          ELSE [firstCreated EXCEPT ![u][id] = data.created_at]
    /\ lastWrite' = [lastWrite EXCEPT ![u][id] =
                        [text |-> Strip(text.s), answer |-> Strip(answer.s), time |-> t]]

(***************************************************************************)
(* POST /api/question-answer                                               *)
(***************************************************************************)
SaveRequests ==
    {[user_id |-> u, question_id |-> IntV(q), question_text |-> ta[1],
      answer |-> ta[2], answers |-> <<>>] :
        u \in Users, q \in QuestionIds, ta \in SaveTexts}

\* verify_firebase_token, the ownership check, validation, answer_data
SaveBegin(token, req) ==
    LET pr == [Idle EXCEPT !.op = "save", !.token = token, !.user = req.user_id,
                           !.req = req]
    IN IF token = "invalid" THEN Unauthorized("save")
       ELSE IF ~Authorized(token, req.user_id) THEN Finish(pr, 403)
       ELSE IF IsBlank(req.answer) THEN Finish(pr, 400)
       ELSE IF IsBlank(req.question_text) THEN Finish(pr, 400)
       ELSE [pr EXCEPT !.pc = "sqa_get", !.time = utcnow,
                       !.data = AnswerData(req.question_id, req.question_text,
                                           req.answer, utcnow)]

SaveQuestionAnswer(p) ==
    /\ Free(p)
    /\ \E token \in Tokens, req \in SaveRequests : Receive(p, SaveBegin(token, req))
    /\ UNCHANGED <<docs, summary, firstCreated, lastWrite, lastSummary, lastRefresh>>
    /\ UNCHANGED initVars

\* existing_answer = answer_doc_ref.get()
SaveGet(p) ==
    LET pr == procs[p]
    IN /\ pr.pc = "sqa_get"
       /\ \/ Step(p, StoreError(pr))
          \/ Step(p, [pr EXCEPT !.pc = "sqa_set", !.didRead = TRUE,
                                !.existing = GetDocument(pr.user, PyStr(pr.req.question_id))])
       /\ UNCHANGED <<docs, summary, now, nreq, firstCreated, lastWrite, lastSummary,
                      lastRefresh>>
       /\ UNCHANGED initVars

\* answer_doc_ref.set(answer_data), in either branch
SaveSet(p) ==
    LET pr == procs[p]
        id == PyStr(pr.req.question_id)
        data == KeepCreatedAt(pr.data, pr.existing)
    IN /\ pr.pc = "sqa_set"
       /\ \/ /\ Step(p, StoreError(pr))
             /\ UNCHANGED <<docs, firstCreated, lastWrite>>
          \/ /\ docs' = [docs EXCEPT ![pr.user][id] = SetDocument(@, data)]
             /\ NoteWrite(pr.user, id, data, pr.req.question_text, pr.req.answer, pr.time)
             /\ Step(p, [pr EXCEPT !.pc = "sum_count", !.data = data, !.didWrite = TRUE,
                                   !.wrote = TRUE, !.written = {id}])
       /\ UNCHANGED <<summary, now, nreq, lastSummary, lastRefresh>>
       /\ UNCHANGED initVars

(***************************************************************************)
(* update_user_summary                                                     *)
(***************************************************************************)
SummaryFailureRaises(pr, outcome) ==
    [Finish(pr, IF outcome = "ok" THEN 200 ELSE 500) EXCEPT
        !.refresh = outcome, !.storeFailed = outcome # "ok"]

\* update_user_summary returns (its exception is logged, not raised) and the
\* handler builds its success response
AfterSummary(pr, outcome) ==
    [Finish(pr, 200) EXCEPT
        !.refresh = outcome,
        !.body = [answers |-> <<>>,
                  total_answers |-> IF pr.op = "bulk" THEN Len(pr.req.answers) ELSE 0]]

\* answers_docs = list(questions_ref.stream()); total_answers = len(answers_docs)
SummaryCount(p) ==
    LET pr == procs[p]
    IN /\ pr.pc = "sum_count"
       /\ \/ /\ Step(p, AfterSummary(pr, "count_failed"))
             /\ lastRefresh' = [lastRefresh EXCEPT ![pr.user] = "failed"]
          \/ /\ Step(p, [pr EXCEPT !.pc = "sum_set", !.didRead = TRUE,
                                   !.total = CountAnswers(pr.user)])
             /\ UNCHANGED lastRefresh
       /\ UNCHANGED <<docs, summary, now, nreq, firstCreated, lastWrite, lastSummary>>
       /\ UNCHANGED initVars

\* user_doc_ref.set(summary_data, merge=True)
SummarySet(p) ==
    LET pr == procs[p]
    IN /\ pr.pc = "sum_set"
       /\ \/ /\ Step(p, AfterSummary(pr, "set_failed"))
             /\ lastRefresh' = [lastRefresh EXCEPT ![pr.user] = "failed"]
             /\ UNCHANGED <<summary, lastSummary>>
          \/ /\ summary' = [summary EXCEPT ![pr.user] =
                               [@ EXCEPT !.exists = TRUE, !.user_id = pr.user,
                                         !.total_answers = pr.total,
                                         !.last_updated = utcnow]]
             /\ lastSummary' = [lastSummary EXCEPT ![pr.user] =
                                   [written |-> TRUE, total |-> pr.total,
                                    live |-> CountAnswers(pr.user)]]
             /\ lastRefresh' = [lastRefresh EXCEPT ![pr.user] = "ok"]
             /\ Step(p, [AfterSummary(pr, "ok") EXCEPT !.didWrite = TRUE])
       /\ now' = Later(now)
       /\ UNCHANGED <<docs, nreq, firstCreated, lastWrite>>
       /\ UNCHANGED initVars

(***************************************************************************)
(* POST /api/bulk-answers                                                  *)
(***************************************************************************)
BulkRequests ==
    {[user_id |-> u, question_id |-> NoneV, question_text |-> NoneV, answer |-> NoneV,
      answers |-> l] : u \in Users, l \in BulkLists}

\* `all(key in answer_item for key in [...])`
HasRequiredKeys(item) == RequiredKeys \subseteq DOMAIN item

\* verify_firebase_token, the ownership check, the empty-list check, current_time
BulkBegin(token, req) ==
    LET pr == [Idle EXCEPT !.op = "bulk", !.token = token, !.user = req.user_id,
                           !.req = req,
                           !.lacksKey = \E k \in 1..Len(req.answers) :
                                            ~HasRequiredKeys(req.answers[k])]
    IN IF token = "invalid" THEN Unauthorized("bulk")
       ELSE IF ~Authorized(token, req.user_id) THEN Finish(pr, 403)
       ELSE IF req.answers = <<>> THEN Finish(pr, 400)
       ELSE [pr EXCEPT !.pc = "bulk_loop", !.time = utcnow, !.i = 1]

SaveBulkAnswers(p) ==
    /\ Free(p)
    /\ \E token \in Tokens, req \in BulkRequests : Receive(p, BulkBegin(token, req))
    /\ UNCHANGED <<docs, summary, firstCreated, lastWrite, lastSummary, lastRefresh>>
    /\ UNCHANGED initVars

\* the loop moves to the next item, or leaves for batch.commit()
NextItem(pr) ==
    IF pr.i < Len(pr.req.answers) THEN [pr EXCEPT !.i = pr.i + 1]
    ELSE [pr EXCEPT !.pc = "bulk_commit", !.i = 0]

\* one iteration of `for answer_item in request.answers`
BulkItem(p) ==
    LET pr == procs[p]
        item == pr.req.answers[pr.i]
        id == PyStr(item.question_id)
        data == AnswerData(item.question_id, item.question_text, item.answer, pr.time)
    IN /\ pr.pc = "bulk_loop"
       /\ IF ~HasRequiredKeys(item) THEN Step(p, Finish(pr, 400))
          ELSE IF ~HasStrip(item.answer) THEN Step(p, Finish(pr, 500))
          ELSE IF IsBlank(item.answer) THEN Step(p, NextItem(pr))
          ELSE IF ~HasStrip(item.question_text) THEN Step(p, Finish(pr, 500))
          ELSE \/ Step(p, StoreError(pr))
               \/ Step(p, NextItem([pr EXCEPT
                            !.didRead = TRUE,
                            !.batch = Append(@, [id |-> id, src |-> pr.i,
                                                 data |-> KeepCreatedAt(data,
                                                              GetDocument(pr.user, id))])]))
       /\ UNCHANGED <<docs, summary, now, nreq, firstCreated, lastWrite, lastSummary,
                      lastRefresh>>
       /\ UNCHANGED initVars

BatchIds(batch) == {batch[k].id : k \in 1..Len(batch)}

\* the last write of the batch to document id
LastOf(batch, id) ==
    batch[CHOOSE k \in 1..Len(batch) :
              /\ batch[k].id = id
              /\ \A j \in (k + 1)..Len(batch) : batch[j].id # id]

\* batch.commit(): every write of the batch is applied, or none
BulkCommit(p) ==
    LET pr == procs[p]
        u == pr.user
        ids == BatchIds(pr.batch)
        after == ApplyBatch(docs[u], pr.batch)
    IN /\ pr.pc = "bulk_commit"
       /\ \/ /\ Step(p, StoreError(pr))
             /\ UNCHANGED <<docs, firstCreated, lastWrite>>
          \/ /\ docs' = [docs EXCEPT ![u] = after]
             /\ firstCreated' = [firstCreated EXCEPT ![u] =
                   [id \in DocIds |->
                       IF id \in ids /\ ~docs[u][id].exists
                       THEN after[id].data.created_at ELSE @[id]]]
             /\ lastWrite' = [lastWrite EXCEPT ![u] =
                   [id \in DocIds |->
                       IF id \in ids
                       THEN LET item == pr.req.answers[LastOf(pr.batch, id).src]
                            IN [text |-> Strip(item.question_text.s),
                                answer |-> Strip(item.answer.s), time |-> pr.time]
                       ELSE @[id]]]
             /\ Step(p, [pr EXCEPT !.pc = "sum_count", !.didWrite = pr.batch # <<>>,
                                   !.wrote = TRUE, !.written = ids, !.batch = <<>>])
       /\ UNCHANGED <<summary, now, nreq, lastSummary, lastRefresh>>
       /\ UNCHANGED initVars

(***************************************************************************)
(* GET /api/user-answers/{user_id}                                         *)
(***************************************************************************)
ReadBegin(op, pc, token, u, q) ==
    LET pr == [Idle EXCEPT !.op = op, !.token = token, !.user = u,
                           !.req = [NoRequest EXCEPT !.user_id = u, !.question_id = q]]
    IN IF token = "invalid" THEN Unauthorized(op)
       ELSE IF ~Authorized(token, u) THEN Finish(pr, 403)
       ELSE [pr EXCEPT !.pc = pc]

GetUserAnswers(p) ==
    /\ Free(p)
    /\ \E token \in Tokens, u \in Users :
          Receive(p, ReadBegin("get_all", "gua_stream", token, u, NoneV))
    /\ UNCHANGED <<docs, summary, firstCreated, lastWrite, lastSummary, lastRefresh>>
    /\ UNCHANGED initVars

\* the response of get_user_answers for the streamed documents
UserAnswersResult(pr, answers) ==
    LET sorted == SortByQuestionId(answers)
    IN IF ~sorted.ok THEN Finish(pr, 500)
       ELSE [Finish(pr, 200) EXCEPT
                !.body = [answers |-> sorted.list, total_answers |-> Len(sorted.list)]]

\* questions_ref.stream(), the projection, the sort and the response
GuaStream(p) ==
    LET pr == procs[p]
    IN /\ pr.pc = "gua_stream"
       /\ \/ Step(p, StoreError(pr))
          \/ Step(p, UserAnswersResult([pr EXCEPT !.didRead = TRUE],
                                       StreamAnswers(pr.user)))
       /\ UNCHANGED <<docs, summary, now, nreq, firstCreated, lastWrite, lastSummary,
                      lastRefresh>>
       /\ UNCHANGED initVars

(***************************************************************************)
(* GET /api/question-answer/{user_id}/{question_id}                        *)
(***************************************************************************)
GetSpecificAnswer(p) ==
    /\ Free(p)
    /\ \E token \in Tokens, u \in Users, q \in QuestionIds :
          Receive(p, ReadBegin("get_one", "gsa_get", token, u, IntV(q)))
    /\ UNCHANGED <<docs, summary, firstCreated, lastWrite, lastSummary, lastRefresh>>
    /\ UNCHANGED initVars

\* answer_doc_ref.get() and the response
GsaGet(p) ==
    LET pr == procs[p]
        doc == GetDocument(pr.user, PyStr(pr.req.question_id))
        rd == [pr EXCEPT !.didRead = TRUE]
    IN /\ pr.pc = "gsa_get"
       /\ \/ Step(p, StoreError(pr))
          \/ Step(p, IF ~doc.exists THEN Finish(rd, 404)
                     ELSE [Finish(rd, 200) EXCEPT
                              !.body = [answers |-> <<doc.data>>, total_answers |-> 0]])
       /\ UNCHANGED <<docs, summary, now, nreq, firstCreated, lastWrite, lastSummary,
                      lastRefresh>>
       /\ UNCHANGED initVars

(***************************************************************************)
(* initialize_firebase                                                     *)
(***************************************************************************)
\* values of FIREBASE_SERVICE_ACCOUNT: unset, the empty string, text that is
\* not JSON, the JSON text {}, a JSON object that is no service account, a
\* service account
RawValues == {"unset", "empty", "not_json", "json_empty", "json_other", "json_cred"}

\* values of FIREBASE_SERVICE_ACCOUNT_BASE64: the above for the text it
\* decodes to, and text that is not base64
B64Values == RawValues \cup {"not_base64"}

Environments ==
    [raw : RawValues, b64 : B64Values, file_exists : BOOLEAN, file_valid : BOOLEAN]

\* `if value:` for Optional[str]
Truthy(v) == v \notin {"unset", "empty"}

\* json.loads(text): the parsed value, or an exception
JsonLoads(v) ==
    CASE v = "json_empty" -> [ok |-> TRUE, dict |-> "empty"]
      [] v = "json_other" -> [ok |-> TRUE, dict |-> "other"]
      [] v = "json_cred" -> [ok |-> TRUE, dict |-> "cred"]
      [] OTHER -> [ok |-> FALSE, dict |-> "none"]

\* json.loads(base64.b64decode(value).decode("utf-8"))
B64JsonLoads(v) ==
    IF v = "not_base64" THEN [ok |-> FALSE, dict |-> "none"] ELSE JsonLoads(v)

\* `if cred_dict:` for a parsed dict, or None
DictTruthy(d) == d \notin {"none", "empty"}

InitOutcome(outcome, source) == [outcome |-> outcome, source |-> source]

\* history: the environment and the app registry a call found
NoCall == [outcome |-> "none", source |-> "none", env |-> <<>>, before |-> FALSE]

Called(result, e, before) ==
    [outcome |-> result.outcome, source |-> result.source, env |-> <<e>>, before |-> before]

\* credentials.Certificate(cred_dict); firebase_admin.initialize_app(cred)
FromDict(d, source) ==
    IF d = "cred" THEN InitOutcome("initialized", source)
    ELSE InitOutcome("cert_error", source)

\* the fallback branch: the local file
FromFile(e) ==
    IF e.file_exists
    THEN IF e.file_valid THEN InitOutcome("initialized", "file")
         ELSE InitOutcome("cert_error", "file")
    ELSE InitOutcome("no_credentials", "none")

\* the body of initialize_firebase when no app exists yet
Resolve(e) ==
    LET source == IF Truthy(e.raw) THEN "raw" ELSE IF Truthy(e.b64) THEN "b64" ELSE "none"
        parsed == IF source = "raw" THEN JsonLoads(e.raw)
                  ELSE IF source = "b64" THEN B64JsonLoads(e.b64)
                  ELSE [ok |-> TRUE, dict |-> "none"]
    IN IF ~parsed.ok THEN InitOutcome("parse_error", source)
       ELSE IF DictTruthy(parsed.dict) THEN FromDict(parsed.dict, source)
       ELSE FromFile(e)

InitializeFirebase ==
    /\ IF apps
       THEN /\ initResult' = Called(InitOutcome("noop", "none"), env, apps)
            /\ apps' = apps
       ELSE /\ initResult' = Called(Resolve(env), env, apps)
            /\ apps' = (Resolve(env).outcome = "initialized")
    /\ UNCHANGED <<env, docs, summary, now, procs, nreq, firstCreated, lastWrite,
                   lastSummary, lastRefresh>>

\* the environment changes between two calls
Setenv ==
    /\ \E e \in Environments :
          /\ e # env
          /\ \/ e = [env EXCEPT !.raw = e.raw]
             \/ e = [env EXCEPT !.b64 = e.b64]
             \/ e = [env EXCEPT !.file_exists = e.file_exists, !.file_valid = e.file_valid]
          /\ env' = e
    /\ UNCHANGED <<apps, initResult, docs, summary, now, procs, nreq, firstCreated,
                   lastWrite, lastSummary, lastRefresh>>

(***************************************************************************)
(* Specifications                                                          *)
(***************************************************************************)
StoreInit ==
    /\ docs = [u \in Users |-> [id \in DocIds |-> NoDoc]]
    /\ summary = [u \in Users |-> NoSummary]
    /\ now = 0
    /\ procs = [p \in Procs |-> Idle]
    /\ nreq = 0
    /\ firstCreated = [u \in Users |-> [id \in DocIds |-> -1]]
    /\ lastWrite = [u \in Users |-> [id \in DocIds |->
                       [text |-> <<>>, answer |-> <<>>, time |-> -1]]]
    /\ lastSummary = [u \in Users |-> [written |-> FALSE, total |-> 0, live |-> 0]]
    /\ lastRefresh = [u \in Users |-> "none"]

\* the service: the module was imported, so initialize_firebase succeeded
Init ==
    /\ StoreInit
    /\ env = [raw |-> "json_cred", b64 |-> "unset", file_exists |-> FALSE,
              file_valid |-> FALSE]
    /\ apps = TRUE
    /\ initResult = Called(InitOutcome("initialized", "raw"), env, FALSE)

Next ==
    \E p \in Procs :
          \/ SaveQuestionAnswer(p)
          \/ SaveGet(p)
          \/ SaveSet(p)
          \/ SaveBulkAnswers(p)
          \/ BulkItem(p)
          \/ BulkCommit(p)
          \/ SummaryCount(p)
          \/ SummarySet(p)
          \/ GetUserAnswers(p)
          \/ GuaStream(p)
          \/ GetSpecificAnswer(p)
          \/ GsaGet(p)

Spec == Init /\ [][Next]_vars

\* process start: any environment, no app yet
StartupInit ==
    /\ StoreInit
    /\ env \in Environments
    /\ apps = FALSE
    /\ initResult = NoCall

StartupNext == InitializeFirebase \/ Setenv

StartupSpec == StartupInit /\ [][StartupNext]_vars

(***************************************************************************)
(* Properties                                                              *)
(***************************************************************************)
Done(p) == procs[p].pc = "done"

\* the caller is authenticated and owns the target
Owner(p) == procs[p].token = procs[p].user

\* the caller is authenticated as somebody else than the target
Stranger(p) == procs[p].token \in Users /\ procs[p].token # procs[p].user

\* C1: on each of the four endpoints, a request whose authenticated identity
\* differs from its target user ends with 403 at once, and has neither read
\* nor written the store.
C1_ForbiddenBeforeStoreAccess ==
    \A p \in Procs :
        Stranger(p) =>
            /\ Done(p)
            /\ procs[p].status = 403
            /\ ~procs[p].didRead
            /\ ~procs[p].didWrite

\* C1 witness: a stranger asked for all answers of a user who has a stored
\* document, and was refused.
C1_Witness ==
    \E p \in Procs :
        /\ Stranger(p)
        /\ procs[p].op = "get_all"
        /\ procs[p].status = 403
        /\ StoredIds(procs[p].user) # {}

\* C2: a stored Answer document carries the created_at that was written by
\* the write that created it.
C2_CreatedAtImmutable ==
    \A u \in Users, id \in DocIds :
        docs[u][id].exists => docs[u][id].data.created_at = firstCreated[u][id]

\* C3: the total_answers of each UserSummary write equals the number of
\* Answer documents stored under the user at the moment of that write.
C3_SummaryCountsAtWrite ==
    \A u \in Users : lastSummary[u].written => lastSummary[u].total = lastSummary[u].live

\* C4: when no request for user u is in flight and u's most recent summary
\* refresh did not fail, UserSummary.total_answers equals the number of
\* Answer documents stored under u.
C4_SummarySelfHeals ==
    \A u \in Users :
        (/\ \A p \in Procs : InFlight(p) => procs[p].user # u
         /\ lastRefresh[u] = "ok")
        => /\ summary[u].exists
           /\ summary[u].total_answers = CountAnswers(u)

\* C5: a bulk request of the owner with an item lacking a required key fails
\* with 400 and writes nothing (no store call of the request having failed).
C5_MalformedItemRejected ==
    \A p \in Procs :
        (Done(p) /\ procs[p].op = "bulk" /\ Owner(p) /\ procs[p].lacksKey
            /\ ~procs[p].storeFailed)
        => procs[p].status = 400 /\ ~procs[p].didWrite

\* the document ids of the items whose answer is non-blank after trimming
AnsweredIds(items) ==
    {PyStr(items[k].question_id) :
        k \in {j \in 1..Len(items) : Strip(items[j].answer.s) # <<>>}}

\* a bulk request that succeeded with no other request in flight, seen
\* before any later request arrives
BulkAlone(p) ==
    /\ Done(p)
    /\ procs[p].op = "bulk"
    /\ procs[p].status = 200
    /\ procs[p].alone

WroteAnswered(p) ==
    /\ procs[p].written = AnsweredIds(procs[p].req.answers)
    /\ \A id \in procs[p].written : docs[procs[p].user][id].exists

SummaryCurrent(u) ==
    /\ summary[u].exists
    /\ summary[u].total_answers = CountAnswers(u)

\* C6 as stated: a successful bulk save run alone writes exactly the
\* documents of its non-blank items, and afterwards total_answers equals the
\* number of stored documents.
C6_BulkWritesAnsweredAndCounts ==
    \A p \in Procs : BulkAlone(p) => WroteAnswered(p) /\ SummaryCurrent(procs[p].user)

\* C6 amended: a successful bulk save run alone writes exactly the documents
\* of its non-blank items, and afterwards, unless its summary refresh failed,
\* total_answers equals the number of stored documents.
C6_BulkWritesAnsweredAndCountsIfRefreshed ==
    \A p \in Procs :
        BulkAlone(p) =>
            /\ WroteAnswered(p)
            /\ procs[p].refresh = "ok" => SummaryCurrent(procs[p].user)

\* C6 witness: a bulk save run alone on a user that already had a document,
\* with a blank item skipped: the request has two items, one document was
\* written, two are stored and counted.
C6_Witness ==
    \E p \in Procs :
        /\ BulkAlone(p)
        /\ procs[p].refresh = "ok"
        /\ Len(procs[p].req.answers) = 2
        /\ Cardinality(procs[p].written) = 1
        /\ CountAnswers(procs[p].user) = 2
        /\ summary[procs[p].user].total_answers = 2

\* C7: a step of the summary refresh leaves every Answer document as it is,
\* and when the refresh ends, failed or not, the request ends with success.
C7_RefreshFailureSwallowed ==
    [][\A p \in Procs :
          (procs[p].pc \in {"sum_count", "sum_set"} /\ procs'[p].pc # procs[p].pc)
          => /\ docs' = docs
             /\ procs[p].wrote
             /\ procs'[p].pc = "done" =>
                   /\ procs'[p].status = 200
                   /\ ~procs'[p].storeFailed
                   /\ \A id \in procs'[p].written : docs'[procs[p].user][id].exists]_vars

\* C7 witness: a save whose count read failed and a bulk save whose summary
\* write failed have both answered 200 and their documents are stored.
C7_Witness ==
    /\ Done("p1") /\ procs["p1"].op = "save" /\ procs["p1"].refresh = "count_failed"
    /\ Done("p2") /\ procs["p2"].op = "bulk" /\ procs["p2"].refresh = "set_failed"
    /\ \A p \in Procs :
          /\ procs[p].status = 200
          /\ procs[p].written # {}
          /\ \A id \in procs[p].written : docs[procs[p].user][id].exists

Ascending(list) ==
    \A k \in 1..(Len(list) - 1) :
        /\ Comparable(list[k].question_id, list[k + 1].question_id)
        /\ PyLess(list[k].question_id, list[k + 1].question_id)

\* C8: get_user_answers of the owner (its store read not failing) succeeds,
\* and what it returns is every document stored under the user exactly once,
\* ascending by question_id, with total_answers the length of the list.
C8_AllAnswersSorted ==
    \A p \in Procs :
        (Done(p) /\ procs[p].op = "get_all" /\ Owner(p) /\ ~procs[p].storeFailed)
        => /\ procs[p].status = 200
           /\ Ascending(procs[p].body.answers)
           /\ procs[p].body.total_answers = Len(procs[p].body.answers)
           /\ procs[p].alone =>
                 LET u == procs[p].user
                     list == procs[p].body.answers
                 IN /\ Len(list) = Cardinality(StoredIds(u))
                    /\ \A id \in StoredIds(u) :
                          Cardinality({k \in 1..Len(list) : list[k] = docs[u][id].data}) = 1

\* the source is set: the variable exists and is not empty
IsSet(v) == v \notin {"unset", "empty"}

\* C9: the first source that is set is the one a call resolves from (raw
\* JSON, else base64, else the file if it exists), the call fails when none
\* resolves, corrupt text in the winning environment value is a parse error,
\* and a call that finds an app is a no-op.
C9_FirstSetSourceWins ==
    initResult.outcome # "none" =>
        LET e == initResult.env[1]
        IN IF initResult.before THEN initResult.outcome = "noop"
           ELSE /\ IsSet(e.raw) => initResult.source = "raw"
                /\ (~IsSet(e.raw) /\ IsSet(e.b64)) => initResult.source = "b64"
                /\ (~IsSet(e.raw) /\ ~IsSet(e.b64) /\ e.file_exists)
                      => initResult.source = "file"
                /\ (~IsSet(e.raw) /\ ~IsSet(e.b64) /\ ~e.file_exists)
                      => initResult.outcome = "no_credentials"
                /\ (e.raw = "not_json" \/ (~IsSet(e.raw) /\ e.b64 \in {"not_json", "not_base64"}))
                      => initResult.outcome = "parse_error"

\* C10: a stored Answer document has its question_text, answer and
\* updated_at all from the one request whose write was applied last.
C10_LastWriteWins ==
    \A u \in Users, id \in DocIds :
        docs[u][id].exists =>
            /\ docs[u][id].data.question_text = lastWrite[u][id].text
            /\ docs[u][id].data.answer = lastWrite[u][id].answer
            /\ docs[u][id].data.updated_at = lastWrite[u][id].time

\* C10 witness: two saves of the same question of the same user, with
\* different texts and answers, ran concurrently and both succeeded; the
\* document is the first request's, whose write came last.
C10_Witness ==
    LET a == procs["p1"]
        b == procs["p2"]
    IN /\ a.pc = "done" /\ b.pc = "done"
       /\ a.op = "save" /\ b.op = "save"
       /\ a.status = 200 /\ b.status = 200
       /\ ~a.alone /\ ~b.alone
       /\ a.user = b.user
       /\ a.req.question_id = b.req.question_id
       /\ a.req.question_text # b.req.question_text
       /\ a.req.answer # b.req.answer
       /\ docs[a.user][PyStr(a.req.question_id)].data.answer = Strip(a.req.answer.s)
       /\ docs[a.user][PyStr(a.req.question_id)].data.updated_at = 0

====
